---- MODULE Spec2Model ----
(***************************************************************************)
(* Model of src/app.py: the candlestick pattern classifier                 *)
(* (detect_candlestick_patterns), the movement aggregator                  *)
(* (predict_movement) and the 'Analyze Stock' request pipeline.            *)
(*                                                                         *)
(* Prices are integers (a fixed number of price ticks).  The thresholds    *)
(* 0.1 and 0.3 of the source are kept as tenths, so `body <= 0.1 * range`  *)
(* is 10 * body <= 1 * range in exact arithmetic; binary floating-point    *)
(* rounding is not modelled.  Percentages are exact rationals in lowest    *)
(* terms.                                                                  *)
(***************************************************************************)
EXTENDS Integers, Sequences, FiniteSets

VARIABLES pc, input, df, out, probabilities, steps

vars == <<pc, input, df, out, probabilities, steps>>

(***************************************************************************)
(* Bounds of the model.                                                    *)
(***************************************************************************)
\* longest price series handed to the classifier
MaxBars == 3
\* longest already-labelled series handed directly to the aggregator
MaxLabels == 4

(***************************************************************************)
(* Cells.  A raw cell is a number, a string holding a number, any other    *)
(* text, or a missing value.  A numeric cell after coercion is a number or *)
(* NaN.                                                                    *)
(***************************************************************************)
Num(n) == [k |-> "num", v |-> n]
Str(n) == [k |-> "str", v |-> n]
Txt == [k |-> "txt", v |-> 0]
NaN == [k |-> "nan", v |-> 0]
Lab(s) == [k |-> "lab", v |-> s]

\* required_columns, in list order
required_columns == <<"Open", "High", "Low", "Close">>

RequiredSet == {required_columns[j] : j \in DOMAIN required_columns}

\* the closed set of labels the classifier writes
PatternLabels == {"None", "Doji", "Hammer", "Bullish_Engulfing", "Bearish_Engulfing"}

\* 0.1, in tenths
DojiBodyTenths == 1
\* 0.3, in tenths
HammerBodyTenths == 3
\* the factor 2 of `Lower_Shadow > 2 * Body`
HammerShadowFactor == 2

\* a DataFrame: its columns, its (date) index and its rows in order
Frame(cols, idx, rows) == [columns |-> cols, index |-> idx, rows |-> rows]

EmptyFrame == Frame({}, <<>>, <<>>)

\* df[c] as a sequence
Col(df_, c) == [i \in DOMAIN df_.rows |-> df_.rows[i][c]]

\* df.empty: any axis of length 0
IsEmpty(df_) == df_.columns = {} \/ Len(df_.rows) = 0

\* all(col in df.columns for col in required_columns)
HasRequired(df_) == \A j \in DOMAIN required_columns : required_columns[j] \in df_.columns

(***************************************************************************)
(* NaN-aware arithmetic and comparison, as pandas/numpy do them: an        *)
(* arithmetic result with a NaN operand is NaN, a comparison with a NaN    *)
(* operand is False.                                                       *)
(***************************************************************************)
IsNa(a) == a.k = "nan"

Sub(a, b) == IF IsNa(a) \/ IsNa(b) THEN NaN ELSE Num(a.v - b.v)

Abs(a) == IF IsNa(a) THEN NaN ELSE Num(IF a.v < 0 THEN -a.v ELSE a.v)

\* k * a
Times(k, a) == IF IsNa(a) THEN NaN ELSE Num(k * a.v)

Max2(a, b) == IF IsNa(a) THEN b ELSE IF IsNa(b) THEN a ELSE IF a.v >= b.v THEN a ELSE b

Min2(a, b) == IF IsNa(a) THEN b ELSE IF IsNa(b) THEN a ELSE IF a.v <= b.v THEN a ELSE b

Gt(a, b) == ~IsNa(a) /\ ~IsNa(b) /\ a.v > b.v

Lt(a, b) == ~IsNa(a) /\ ~IsNa(b) /\ a.v < b.v

Le(a, b) == ~IsNa(a) /\ ~IsNa(b) /\ a.v <= b.v

\* pd.to_numeric(errors='coerce') on one cell
to_numeric(cell) == IF cell.k \in {"num", "str"} THEN Num(cell.v) ELSE NaN

\* df[required_columns].apply(pd.to_numeric, errors='coerce')
Coerce(df_) ==
    [df_ EXCEPT !.rows = [i \in DOMAIN df_.rows |->
        [c \in df_.columns |-> IF c \in RequiredSet THEN to_numeric(df_.rows[i][c])
                                                     ELSE df_.rows[i][c]]]]

\* positions of the rows that df.dropna(subset=required_columns) keeps
KeptPositions(df_) ==
    LET Keep(i) == \A c \in RequiredSet : ~IsNa(df_.rows[i][c])
    IN SelectSeq([i \in DOMAIN df_.rows |-> i], Keep)

\* a cleaning step that also drops the bars breaking low <= open, close <= high
DropNaAndIllFormed(df_) ==
    LET Keep(i) ==
            LET r == df_.rows[i]
            IN /\ \A c \in RequiredSet : ~IsNa(r[c])
               /\ Le(r["Low"], r["Open"]) /\ Le(r["Open"], r["High"])
               /\ Le(r["Low"], r["Close"]) /\ Le(r["Close"], r["High"])
        kept == SelectSeq([i \in DOMAIN df_.rows |-> i], Keep)
    IN [df_ EXCEPT !.rows = [j \in DOMAIN kept |-> df_.rows[kept[j]]],
                   !.index = [j \in DOMAIN kept |-> df_.index[kept[j]]]]

\* df.dropna(subset=required_columns, inplace=True): rows and their index labels
DropNa(df_) ==
    LET kept == KeptPositions(df_)
    IN [df_ EXCEPT !.rows = [j \in DOMAIN kept |-> df_.rows[kept[j]]],
                   !.index = [j \in DOMAIN kept |-> df_.index[kept[j]]]]

\* a circular shift (np.roll): the first element gets the last one
ShiftRoll(s) == [i \in DOMAIN s |-> IF i = 1 THEN s[Len(s)] ELSE s[i - 1]]

\* series.shift(1): positional, the first element becomes NaN
Shift1(s) == [i \in DOMAIN s |-> IF i = 1 THEN NaN ELSE s[i - 1]]

\* the three derived columns Body, Upper_Shadow, Lower_Shadow
WithShadows(df_) ==
    [df_ EXCEPT
        !.columns = df_.columns \cup {"Body", "Upper_Shadow", "Lower_Shadow"},
        !.rows = [i \in DOMAIN df_.rows |->
            LET r == df_.rows[i]
            IN [c \in df_.columns \cup {"Body", "Upper_Shadow", "Lower_Shadow"} |->
                 IF c = "Body" THEN Abs(Sub(r["Close"], r["Open"]))
                 ELSE IF c = "Upper_Shadow" THEN Sub(r["High"], Max2(r["Open"], r["Close"]))
                 ELSE IF c = "Lower_Shadow" THEN Sub(Min2(r["Open"], r["Close"]), r["Low"])
                 ELSE r[c]]]]

\* the Doji rule with the shadow tests written >= 0
DojiConditionNonStrict(df_) ==
    [i \in DOMAIN df_.rows |->
        LET r == df_.rows[i]
        IN /\ Le(Times(10, r["Body"]), Times(DojiBodyTenths, Sub(r["High"], r["Low"])))
           /\ Le(Num(0), r["Upper_Shadow"])
           /\ Le(Num(0), r["Lower_Shadow"])]

\* doji_condition, row by row
DojiCondition(df_) ==
    [i \in DOMAIN df_.rows |->
        LET r == df_.rows[i]
        IN /\ Le(Times(10, r["Body"]), Times(DojiBodyTenths, Sub(r["High"], r["Low"])))
           /\ Gt(r["Upper_Shadow"], Num(0))
           /\ Gt(r["Lower_Shadow"], Num(0))]

\* hammer_condition, row by row
HammerCondition(df_) ==
    [i \in DOMAIN df_.rows |->
        LET r == df_.rows[i]
        IN /\ Le(Times(10, r["Body"]), Times(HammerBodyTenths, Sub(r["High"], r["Low"])))
           /\ Gt(r["Lower_Shadow"], Times(HammerShadowFactor, r["Body"]))
           /\ Lt(r["Upper_Shadow"], r["Body"])]

\* bullish_engulfing_condition, row by row
BullishCondition(df_) ==
    LET close == Col(df_, "Close")
        open == Col(df_, "Open")
        pclose == Shift1(close)
        popen == Shift1(open)
    IN [i \in DOMAIN df_.rows |->
           /\ Gt(close[i], open[i])
           /\ Lt(pclose[i], popen[i])
           /\ Gt(close[i], popen[i])
           /\ Lt(open[i], pclose[i])]

\* bearish_engulfing_condition, row by row
BearishCondition(df_) ==
    LET close == Col(df_, "Close")
        open == Col(df_, "Open")
        pclose == Shift1(close)
        popen == Shift1(open)
    IN [i \in DOMAIN df_.rows |->
           /\ Lt(close[i], open[i])
           /\ Gt(pclose[i], popen[i])
           /\ Lt(close[i], popen[i])
           /\ Gt(open[i], pclose[i])]

\* df.loc[cond, 'Pattern'] = label
Loc(pattern, cond, label) == [i \in DOMAIN pattern |-> IF cond[i] THEN label ELSE pattern[i]]

\* the four assignments in the reverse order: the first matching rule wins
AssignPatternsFirstMatch(df_) ==
    LET p0 == [i \in DOMAIN df_.rows |-> "None"]
        p1 == Loc(p0, BearishCondition(df_), "Bearish_Engulfing")
        p2 == Loc(p1, BullishCondition(df_), "Bullish_Engulfing")
        p3 == Loc(p2, HammerCondition(df_), "Hammer")
        p4 == Loc(p3, DojiCondition(df_), "Doji")
    IN p4

\* the Pattern column: 'None', then the four assignments in source order
AssignPatterns(df_) ==
    LET p0 == [i \in DOMAIN df_.rows |-> "None"]
        p1 == Loc(p0, DojiCondition(df_), "Doji")
        p2 == Loc(p1, HammerCondition(df_), "Hammer")
        p3 == Loc(p2, BullishCondition(df_), "Bullish_Engulfing")
        p4 == Loc(p3, BearishCondition(df_), "Bearish_Engulfing")
    IN p4

\* the derived columns and the Pattern column on a cleaned frame
Classify(df_) ==
    LET s == WithShadows(df_)
        p == AssignPatterns(s)
    IN [s EXCEPT
        !.columns = s.columns \cup {"Pattern"},
        !.rows = [i \in DOMAIN s.rows |->
            [c \in s.columns \cup {"Pattern"} |->
                IF c = "Pattern" THEN Lab(p[i]) ELSE s.rows[i][c]]]]

\* classify first and drop the rows with missing values afterwards
ClassifyThenDrop(coerced) == DropNa(Classify(coerced))

\* drop the rows with missing values, then classify what is left
CleanAndClassify(coerced) == Classify(DropNa(coerced))

MissingMsg == "Missing necessary columns in the data."

\* an early return that still adds a Pattern column of 'None'
MissingColumnsLabelled(df_) ==
    [df |-> [df_ EXCEPT
                !.columns = df_.columns \cup {"Pattern"},
                !.rows = [i \in DOMAIN df_.rows |->
                    [c \in df_.columns \cup {"Pattern"} |->
                        IF c = "Pattern" THEN Lab("None") ELSE df_.rows[i][c]]]],
     out |-> <<MissingMsg>>]

\* the early return of detect_candlestick_patterns
MissingColumnsResult(df_) == [df |-> df_, out |-> <<MissingMsg>>]

\* detect_candlestick_patterns(df): the returned frame and what it st.write()s
detect_candlestick_patterns(df_) ==
    IF ~HasRequired(df_)
    THEN MissingColumnsResult(df_)
    ELSE [df |-> CleanAndClassify(Coerce(df_)), out |-> <<>>]

(***************************************************************************)
(* predict_movement.                                                       *)
(***************************************************************************)
RECURSIVE GCD(_, _)
GCD(a, b) == IF b = 0 THEN a ELSE GCD(b, a % b)

\* the rational n / d in lowest terms (d > 0); d = 0 stands for the result
\* of a division by zero
Ratio(n, d) == IF d = 0 THEN [num |-> n, den |-> 0]
               ELSE [num |-> n \div GCD(n, d), den |-> d \div GCD(n, d)]

\* the literal 0 of the two early returns
Zero == Ratio(0, 1)

\* {'Up': 0, 'Down': 0, 'Neutral': 0}
ZeroReport == [Up |-> Zero, Down |-> Zero, Neutral |-> Zero]

\* df['Pattern'].value_counts(): the labels that occur, each with its count
value_counts(df_) ==
    LET p == Col(df_, "Pattern")
    IN [l \in {p[i].v : i \in DOMAIN p} |-> Cardinality({i \in DOMAIN p : p[i].v = l})]

RECURSIVE SumOver(_, _)
SumOver(f, S) == IF S = {} THEN 0
                 ELSE LET x == CHOOSE y \in S : TRUE IN f[x] + SumOver(f, S \ {x})

\* a total that leaves the 'None' bars out
TotalWithoutNone(pattern_counts) == SumOver(pattern_counts, DOMAIN pattern_counts \ {"None"})

\* len(pattern_counts): the number of distinct labels
TotalDistinct(pattern_counts) == Cardinality(DOMAIN pattern_counts)

\* pattern_counts.sum()
total_patterns(pattern_counts) == SumOver(pattern_counts, DOMAIN pattern_counts)

\* pattern_counts.get(label, 0)
Get(pattern_counts, label) ==
    IF label \in DOMAIN pattern_counts THEN pattern_counts[label] ELSE 0

\* count / total_patterns * 100
Percent(count, total) == Ratio(count * 100, total)

\* the dictionary built from the counts
Probabilities(pattern_counts, total) ==
    [Up |-> Percent(Get(pattern_counts, "Bullish_Engulfing") + Get(pattern_counts, "Hammer"), total),
     Down |-> Percent(Get(pattern_counts, "Bearish_Engulfing"), total),
     Neutral |-> Percent(Get(pattern_counts, "Doji"), total)]

\* the counting part without the total_patterns == 0 guard
CountAndReportNoGuard(df_) ==
    LET pattern_counts == value_counts(df_)
    IN Probabilities(pattern_counts, total_patterns(pattern_counts))

\* the part of predict_movement after the Pattern column is known to exist
CountAndReport(df_) ==
    LET pattern_counts == value_counts(df_)
        total == total_patterns(pattern_counts)
    IN IF total = 0 THEN ZeroReport ELSE Probabilities(pattern_counts, total)

\* predict_movement(df)
predict_movement(df_) ==
    IF "Pattern" \notin df_.columns THEN ZeroReport ELSE CountAndReport(df_)

(***************************************************************************)
(* Inputs.  Bars are drawn from a sample that holds, for every rule and    *)
(* every pair of rules that can match together, a bar (and where needed a  *)
(* predecessor) that matches, the scenarios of the specification, bars     *)
(* that break low <= open, close <= high, and bars with non-numeric or     *)
(* missing cells.                                                          *)
(***************************************************************************)
Row(o, h, l, c) ==
    [col \in RequiredSet |->
        IF col = "Open" THEN o ELSE IF col = "High" THEN h ELSE IF col = "Low" THEN l ELSE c]

Bar(o, h, l, c) == Row(Num(o), Num(h), Num(l), Num(c))

WellFormedBars ==
    { Bar(1, 2, 0, 1),             \* Doji only
      Bar(3, 4, 0, 4),             \* Hammer only, bullish
      Bar(17, 20, 0, 19),          \* Doji and Hammer
      Bar(5, 5, 5, 5),             \* open = close = high = low
      Bar(9, 9, 8, 8),             \* bearish, no single-bar rule
      Bar(7, 10, 0, 10),           \* Hammer; engulfs (9, 8) bullishly
      Bar(5, 5, 2, 2),             \* bearish; engulfs (3, 4) bearishly
      Bar(16, 16, 15, 15),         \* bearish
      Bar(14, 30, 0, 17),          \* Doji; engulfs (16, 15) bullishly
      Bar(1000, 1005, 995, 1002),  \* open 10, high 10.05, low 9.95, close 10.02
      Bar(20, 20, 18, 18),         \* open 10, close 9
      Bar(17, 21, 17, 21),         \* open 8.5, close 10.5
      Bar(11, 11, 7, 7) }          \* bearish; engulfs (8, 10) bearishly

IllFormedBars ==
    { Bar(2, 1, 1, 2),             \* open = close above high = low
      Bar(0, 1, 1, 0),             \* open = close below high = low
      Bar(8, 9, 0, 10) }           \* close above high; Hammer, bullish

DirtyBars ==
    { Row(Txt, Num(9), Num(8), Num(8)),          \* non-numeric open
      Row(Num(9), Num(9), Num(8), NaN),          \* missing close
      Row(Str(9), Str(9), Str(8), Str(8)) }      \* numbers held as strings

SampleBars == WellFormedBars \cup IllFormedBars \cup DirtyBars

SeqsUpTo(S, n) == UNION {[1..m -> S] : m \in 0..n}

DateIndex(rows) == [i \in DOMAIN rows |-> i]

\* frames with the four price columns
RawFrames == {Frame(RequiredSet, DateIndex(rows), rows) : rows \in SeqsUpTo(SampleBars, MaxBars)}

Restrict(r, cols) == [c \in cols |-> r[c]]

\* frames that lack at least one of the four price columns
PartialFrames ==
    {Frame(cols, DateIndex(rows), [i \in DOMAIN rows |-> Restrict(rows[i], cols)]) :
        cols \in (SUBSET RequiredSet) \ {RequiredSet},
        rows \in SeqsUpTo({Bar(9, 9, 8, 8), Row(Txt, Num(9), Num(8), Num(8))}, MaxBars)}

\* frames that hold nothing but a Pattern column
LabeledFrames ==
    {Frame({"Pattern"}, DateIndex(rows), rows) :
        rows \in SeqsUpTo({[c \in {"Pattern"} |-> Lab(l)] : l \in PatternLabels}, MaxLabels)}

(***************************************************************************)
(* The two functions applied to any frame.                                 *)
(***************************************************************************)
InitFn ==
    /\ input \in RawFrames \cup PartialFrames \cup LabeledFrames
    /\ df = input
    /\ pc = "call"
    /\ out = <<>>
    /\ probabilities = <<>>
    /\ steps = <<>>

\* df = detect_candlestick_patterns(df)
CallDetect ==
    /\ pc = "call"
    /\ LET r == detect_candlestick_patterns(df)
       IN /\ df' = r.df
          /\ out' = out \o r.out
    /\ pc' = "classified"
    /\ steps' = Append(steps, "classify")
    /\ UNCHANGED <<input, probabilities>>

\* probabilities = predict_movement(df), on the input or on the classified frame
CallPredict ==
    /\ pc \in {"call", "classified"}
    /\ probabilities' = <<predict_movement(df)>>
    /\ pc' = "aggregated"
    /\ steps' = Append(steps, "aggregate")
    /\ UNCHANGED <<input, df, out>>

NextFn == CallDetect \/ CallPredict

SpecFn == InitFn /\ [][NextFn]_vars

(***************************************************************************)
(* The request pipeline of the script.                                     *)
(***************************************************************************)
NoValidMsg == "No valid data found. Please try a different stock symbol or date range."

\* what yf.download can return
FetchResults == RawFrames \cup PartialFrames

\* a test that forgets df.empty
MissingColumnsOnly(df_) == ~HasRequired(df_)

\* the test of the `if` after the download
DataInvalid(df_) == IsEmpty(df_) \/ ~HasRequired(df_)

Init ==
    /\ pc = "idle"
    /\ input = EmptyFrame
    /\ df = EmptyFrame
    /\ out = <<>>
    /\ probabilities = <<>>
    /\ steps = <<>>

\* st.button('Analyze Stock') pressed: the script runs again from the top
Analyze ==
    /\ pc \in {"idle", "done"}
    /\ pc' = "fetch"
    /\ input' = EmptyFrame
    /\ df' = EmptyFrame
    /\ out' = <<>>
    /\ probabilities' = <<>>
    /\ steps' = <<>>

\* df = yf.download(...)
Fetch ==
    /\ pc = "fetch"
    /\ \E f \in FetchResults :
        /\ input' = f
        /\ df' = f
    /\ pc' = "check"
    /\ steps' = Append(steps, "fetch")
    /\ UNCHANGED <<out, probabilities>>

\* the `if` branch: the message, and nothing else
NoValidData ==
    /\ pc = "check"
    /\ DataInvalid(df)
    /\ out' = Append(out, NoValidMsg)
    /\ pc' = "done"
    /\ UNCHANGED <<input, df, probabilities, steps>>

\* df = detect_candlestick_patterns(df)
Detect ==
    /\ pc = "check"
    /\ ~DataInvalid(df)
    /\ LET r == detect_candlestick_patterns(df)
       IN /\ df' = r.df
          /\ out' = out \o r.out
    /\ pc' = "aggregate"
    /\ steps' = Append(steps, "classify")
    /\ UNCHANGED <<input, probabilities>>

\* probabilities = predict_movement(df)
Predict ==
    /\ pc = "aggregate"
    /\ probabilities' = <<predict_movement(df)>>
    /\ pc' = "display"
    /\ steps' = Append(steps, "aggregate")
    /\ UNCHANGED <<input, df, out>>

\* the heading and the three probability lines
Display ==
    /\ pc = "display"
    /\ out' = out \o <<"### Prediction Probabilities", "Up", "Down", "Neutral">>
    /\ pc' = "chart"
    /\ steps' = Append(steps, "display")
    /\ UNCHANGED <<input, df, probabilities>>

\* st.plotly_chart(fig)
Chart ==
    /\ pc = "chart"
    /\ out' = Append(out, "chart")
    /\ pc' = "export"
    /\ steps' = Append(steps, "chart")
    /\ UNCHANGED <<input, df, probabilities>>

\* df.to_csv and st.download_button
Export ==
    /\ pc = "export"
    /\ out' = Append(out, "download_button")
    /\ pc' = "done"
    /\ steps' = Append(steps, "export")
    /\ UNCHANGED <<input, df, probabilities>>

Next == Analyze \/ Fetch \/ NoValidData \/ Detect \/ Predict \/ Display \/ Chart \/ Export

Spec == Init /\ [][Next]_vars

(***************************************************************************)
(* The properties.  They read the frames as plain integers and restate     *)
(* the rules of the specification from the prices of the bars.             *)
(***************************************************************************)
Classified == pc = "classified" /\ RequiredSet \subseteq input.columns

Aggregated == pc = "aggregated"

Label(i) == df.rows[i]["Pattern"].v

O(r) == r["Open"].v
H(r) == r["High"].v
L(r) == r["Low"].v
C(r) == r["Close"].v

BodyOf(r) == IF C(r) >= O(r) THEN C(r) - O(r) ELSE O(r) - C(r)
RangeOf(r) == H(r) - L(r)
UpperOf(r) == H(r) - (IF O(r) >= C(r) THEN O(r) ELSE C(r))
LowerOf(r) == (IF O(r) <= C(r) THEN O(r) ELSE C(r)) - L(r)

MatchesDoji(r) == 10 * BodyOf(r) <= RangeOf(r) /\ UpperOf(r) > 0 /\ LowerOf(r) > 0

MatchesHammer(r) ==
    10 * BodyOf(r) <= 3 * RangeOf(r) /\ LowerOf(r) > 2 * BodyOf(r) /\ UpperOf(r) < BodyOf(r)

MatchesBullish(rows, i) ==
    /\ i > 1
    /\ C(rows[i]) > O(rows[i]) /\ C(rows[i - 1]) < O(rows[i - 1])
    /\ C(rows[i]) > O(rows[i - 1]) /\ O(rows[i]) < C(rows[i - 1])

MatchesBearish(rows, i) ==
    /\ i > 1
    /\ C(rows[i]) < O(rows[i]) /\ C(rows[i - 1]) > O(rows[i - 1])
    /\ C(rows[i]) < O(rows[i - 1]) /\ O(rows[i]) > C(rows[i - 1])

LastMatch(rows, i) ==
    IF MatchesBearish(rows, i) THEN "Bearish_Engulfing"
    ELSE IF MatchesBullish(rows, i) THEN "Bullish_Engulfing"
    ELSE IF MatchesHammer(rows[i]) THEN "Hammer"
    ELSE IF MatchesDoji(rows[i]) THEN "Doji"
    ELSE "None"

WellFormed(r) == L(r) <= O(r) /\ O(r) <= H(r) /\ L(r) <= C(r) /\ C(r) <= H(r)

Engulfing == {"Bullish_Engulfing", "Bearish_Engulfing"}

\* a raw cell that holds a number
Numeric(cell) == cell.k \in {"num", "str"}

Clean(r) == \A c \in RequiredSet : Numeric(r[c])

\* the positions of the input's bars whose four cells all hold numbers
CleanPositions(f) == SelectSeq([i \in DOMAIN f.rows |-> i], LAMBDA i : Clean(f.rows[i]))

\* the input with the other bars removed beforehand, dates kept
Removed(f) ==
    LET kept == CleanPositions(f)
    IN Frame(f.columns, [j \in DOMAIN kept |-> f.index[kept[j]]],
             [j \in DOMAIN kept |-> f.rows[kept[j]]])

LabelsOf(f) == [i \in DOMAIN f.rows |-> f.rows[i]["Pattern"].v]

\* C1: every bar that survives cleaning carries exactly one label of the
\* closed set, and it is the last rule that matches the bar in the order
\* Doji, Hammer, Bullish_Engulfing, Bearish_Engulfing ('None' when no rule
\* matches).
C1_LastMatchingRule ==
    Classified =>
        /\ "Pattern" \in df.columns
        /\ \A i \in DOMAIN df.rows :
            /\ Label(i) \in PatternLabels
            /\ Label(i) = LastMatch(df.rows, i)

\* a bar matching Doji and Hammer is labelled Hammer, and a bar matching
\* Hammer and Bullish_Engulfing is labelled Bullish_Engulfing
C1_Witness ==
    /\ Classified
    /\ \E i \in DOMAIN df.rows :
        MatchesDoji(df.rows[i]) /\ MatchesHammer(df.rows[i]) /\ Label(i) = "Hammer"
    /\ \E i \in DOMAIN df.rows :
        MatchesHammer(df.rows[i]) /\ MatchesBullish(df.rows, i) /\ Label(i) = "Bullish_Engulfing"

CountOf(l) == Cardinality({i \in DOMAIN df.rows : Label(i) = l})

\* r is the percentage 100 * n / total
IsPercentOf(r, n, total) == r.den > 0 /\ r.num * total = 100 * n * r.den

\* C2: on a non-empty labelled series Up = 100 * (Bullish_Engulfing + Hammer)
\* / total, Down = 100 * Bearish_Engulfing / total and Neutral = 100 * Doji /
\* total, total counting every bar, the 'None' ones included.
C2_Percentages ==
    (Aggregated /\ "Pattern" \in df.columns /\ Len(df.rows) > 0) =>
        LET total == Len(df.rows)
            r == probabilities[1]
        IN /\ IsPercentOf(r.Up, CountOf("Bullish_Engulfing") + CountOf("Hammer"), total)
           /\ IsPercentOf(r.Down, CountOf("Bearish_Engulfing"), total)
           /\ IsPercentOf(r.Neutral, CountOf("Doji"), total)

\* four bars, one of them 'None': 25 % each
C2_Witness ==
    /\ Aggregated /\ "Pattern" \in df.columns /\ Len(df.rows) = 4
    /\ CountOf("None") = 1 /\ CountOf("Hammer") = 1
    /\ CountOf("Bearish_Engulfing") = 1 /\ CountOf("Doji") = 1
    /\ probabilities = <<[Up |-> Ratio(25, 1), Down |-> Ratio(25, 1), Neutral |-> Ratio(25, 1)]>>

Flat(r) == H(r) = L(r) /\ O(r) = C(r)

InRange(r) == r.den > 0 /\ 0 <= r.num /\ r.num <= 100 * r.den

\* C5: for any series, also an empty one or one without a Pattern column,
\* each of Up, Down and Neutral lies in [0, 100].
C5_WithinZeroAndHundred ==
    Aggregated =>
        /\ InRange(probabilities[1].Up)
        /\ InRange(probabilities[1].Down)
        /\ InRange(probabilities[1].Neutral)

\* a series of several bars whose Up is exactly 100
C5_Witness ==
    /\ Aggregated /\ "Pattern" \in df.columns /\ Len(df.rows) >= 2
    /\ probabilities[1].Up = Ratio(100, 1)

\* C6: on a series of zero bars, and on a series without a Pattern column,
\* predict_movement returns exactly {Up: 0, Down: 0, Neutral: 0}.
C6_ZeroReport ==
    (Aggregated /\ ("Pattern" \notin df.columns \/ Len(df.rows) = 0)) =>
        probabilities = <<ZeroReport>>

\* a classified series all of whose bars were discarded
C6_Witness ==
    /\ Aggregated /\ "Pattern" \in df.columns
    /\ Len(df.rows) = 0 /\ Len(input.rows) > 0
    /\ probabilities = <<ZeroReport>>

\* C7: the first bar of the cleaned series is never labelled
\* Bullish_Engulfing or Bearish_Engulfing.
C7_FirstBarNeverEngulfing ==
    (Classified /\ Len(df.rows) >= 1) => Label(1) \notin Engulfing

\* the first surviving bar is bullish, the bar after it is bearish and lies
\* inside it, and the bar before it was discarded
C7_Witness ==
    /\ Classified /\ Len(df.rows) >= 2
    /\ df.index[1] > 1
    /\ C(df.rows[1]) > O(df.rows[1]) /\ C(df.rows[2]) < O(df.rows[2])
    /\ C(df.rows[1]) > O(df.rows[2]) /\ O(df.rows[1]) < C(df.rows[2])

\* C8: the labels are those of the series with the bars that have a missing
\* or non-numeric price removed beforehand: a surviving bar is compared with
\* the nearest surviving bar before it.
C8_AdjacencyAfterFilter ==
    Classified =>
        /\ LabelsOf(df) = LabelsOf(detect_candlestick_patterns(Removed(input)).df)
        /\ df.index = Removed(input).index
        /\ \A i \in DOMAIN df.rows :
            /\ Label(i) = "Bullish_Engulfing" <=> MatchesBullish(df.rows, i)
            /\ Label(i) = "Bearish_Engulfing" <=> MatchesBearish(df.rows, i)

\* a bar between two surviving bars was discarded and the later one engulfs
\* the earlier one
C8_Witness ==
    /\ Classified
    /\ \E i \in DOMAIN df.rows :
        i > 1 /\ df.index[i] - df.index[i - 1] > 1 /\ Label(i) \in Engulfing

FullRun == <<"fetch", "classify", "aggregate", "display", "chart", "export">>

IsPrefix(s, t) == Len(s) <= Len(t) /\ \A i \in DOMAIN s : s[i] = t[i]

NoData(f) == Len(f.rows) = 0 \/ ~(RequiredSet \subseteq f.columns)

Fetched == pc \notin {"idle", "fetch"}

\* C9: a fetch result that is empty or lacks a price column ends the
\* request: the 'no valid data' message is shown and nothing else is run or
\* produced, and the fetch is not repeated; every other request runs fetch,
\* classify, aggregate, display, chart, export in this order.
C9_EmptyFetchIsTerminal ==
    /\ IsPrefix(steps, FullRun)
    /\ (Fetched /\ NoData(input)) =>
        /\ steps = <<"fetch">>
        /\ probabilities = <<>>
        /\ df = input
        /\ pc \in {"check", "done"}
        /\ pc = "done" => out = <<NoValidMsg>>
    /\ (pc = "done" /\ ~NoData(input)) =>
        /\ steps = FullRun
        /\ \A i \in DOMAIN out : out[i] # NoValidMsg

\* a request ended by a fetch result that has the four columns and no bar
C9_Witness ==
    /\ pc = "done"
    /\ input.columns = RequiredSet /\ Len(input.rows) = 0
    /\ steps = <<"fetch">> /\ out = <<NoValidMsg>>

\* C10: on a series that lacks one of Open, High, Low, Close the classifier
\* reports the missing columns and returns the series as it is, with no
\* column added.
C10_PassThrough ==
    (pc = "classified" /\ ~(RequiredSet \subseteq input.columns)) =>
        /\ df = input
        /\ out = <<MissingMsg>>

\* a series of bars without a Close column went through the classifier
C10_Witness ==
    /\ pc = "classified"
    /\ input.columns = {"Open", "High", "Low"} /\ Len(input.rows) > 0
    /\ df = input /\ out = <<MissingMsg>>

====
